---- MODULE Spec2Model ----
(***************************************************************************)
(* A model of the datamart metadata index and augmentation engine:         *)
(*   IndexBuilder (datamart/index_builder.py): the identifier counter,     *)
(*     construct_global_metadata, indexing, updating, bulk_indexing;       *)
(*   Augment (datamart/augment.py): query and join.                        *)
(* The store (IndexManager / QueryManager), the profiler, the schema       *)
(* validator, the materializer and the joiners are collaborators: the      *)
(* model records the calls made to them and draws their outcomes from      *)
(* small sets.                                                             *)
(***************************************************************************)
EXTENDS Integers, Sequences, FiniteSets

VARIABLES
    current_global_index,  \* [Builders -> Option(Int)]: IndexBuilder.current_global_index
    es_exists,             \* whether the store index exists
    es_docs,               \* the documents of the store index (keyed by datamart_id)
    mirror,                \* the save_to_file file: a sequence of (id, json) records
    last,                  \* what the latest IndexBuilder call did and returned
    ncalls,                \* how many calls of IndexBuilder's methods were made
    assignments,           \* the dataset ids taken from the counters, in order
    joiners,               \* Augment.joiners: strategy name -> joiner or None
    prepared,              \* strategy name -> the calls of JoinerPrepare.prepare_joiner
    alast                  \* what the latest Augment call did and returned

vars == <<current_global_index, es_exists, es_docs, mirror, last, ncalls,
          assignments, joiners, prepared, alast>>
ibvars == <<current_global_index, es_exists, es_docs, mirror, last, ncalls,
            assignments>>
augvars == <<joiners, prepared, alast>>

----------------------------------------------------------------------------
(* Bounds of the model *)

\* a behaviour makes up to MaxCalls calls of indexing, updating and
\* construct_global_metadata; bulk_indexing makes one call of indexing for each
\* description file
MaxCalls == 2
\* two IndexBuilder processes over one index make up to MaxSharedCalls calls
MaxSharedCalls == 3
\* JoinerPrepare.prepare_joiner is followed up to MaxPrepares calls for a name
MaxPrepares == 2

(* Program constants *)

GLOBAL_INDEX_INTERVAL == 10000

----------------------------------------------------------------------------
(* Python values *)

\* None, and a value that is not None
None == <<>>
Some(x) == <<x>>
Val(o) == o[1]

\* Python truthiness of an optional integer: None and 0 are falsy
TruthyInt(o) == o # None /\ Val(o) # 0
\* of an optional string: None and "" are falsy
TruthyStr(o) == o # None /\ Val(o) # ""
\* of an optional list: None and [] are falsy
TruthyList(o) == o # None /\ Val(o) # <<>>

Builders == {"b1", "b2"}

----------------------------------------------------------------------------
(* Inputs *)

\* A description file: whether it passes Utils.validate_schema, its declared
\* variables, and whether the metadata built from it passes validate_schema.
Description(valid, n, meta_valid) ==
    [valid |-> valid,
     variables |-> [i \in 1..n |-> [name |-> i]],
     meta_valid |-> meta_valid]

Descriptions ==
    {Description(FALSE, 0, TRUE), Description(TRUE, 1, FALSE)}
        \cup {Description(TRUE, n, TRUE) : n \in 0..2}

\* A description that declares as many variables as the interval is wide.
WideDescription == Description(TRUE, GLOBAL_INDEX_INTERVAL, TRUE)

\* A pandas DataFrame, by its shape[1]
DataFrame(ncols) == [ncols |-> ncols]
DataFrames == {DataFrame(1), DataFrame(2)}

----------------------------------------------------------------------------
(* The store: IndexManager, an external collaborator *)

\* im.current_global_datamart_id(index): the greatest datamart_id of the
\* index's documents, 0 for an index that holds none
Max(S) == CHOOSE x \in S : \A y \in S : y <= x
current_global_datamart_id(docs) ==
    IF docs = {} THEN 0 ELSE Max({d.datamart_id : d \in docs})

\* im.create_doc(index, body, id): the single-document write keyed by id
create_doc(docs, body) ==
    {d \in docs : d.datamart_id # body.datamart_id} \cup {body}

----------------------------------------------------------------------------
(* IndexBuilder *)

\* _check_es_index: create the index if absent, else drop and recreate it
\* when asked to
check_es_index(exists, docs, delete_old_es_index) ==
    IF ~exists
      THEN [exists |-> TRUE, docs |-> docs, dropped |-> FALSE]
      ELSE IF delete_old_es_index
        THEN [exists |-> TRUE, docs |-> {}, dropped |-> TRUE]
        ELSE [exists |-> TRUE, docs |-> docs, dropped |-> FALSE]

\* indexing, line 64: when the counter is re-read from the store
SyncNeeded_NotOnDelete(cgi, delete_old_es_index) == ~TruthyInt(cgi)
SyncNeeded_Always(cgi, delete_old_es_index) == TRUE
SyncNeeded(cgi, delete_old_es_index) == ~TruthyInt(cgi) \/ delete_old_es_index

\* construct_global_metadata, line 250: the counter after a new dataset id
NextIndex(cgi) == cgi + GLOBAL_INDEX_INTERVAL

\* line 250 on the attribute as it is: None += int raises TypeError (here
\* None) and leaves the attribute as it was
AdvanceIndex_NoneAsZero(cgi) == Some(NextIndex(IF cgi = None THEN 0 ELSE Val(cgi)))
AdvanceIndex(cgi) == IF cgi = None THEN None ELSE Some(NextIndex(Val(cgi)))

\* construct_variable_metadata, line 303: the id of the column at col_offset
VariableId_NoPlusOne(global_datamart_id, col_offset) == col_offset + global_datamart_id
VariableId(global_datamart_id, col_offset) == col_offset + global_datamart_id + 1

\* construct_variable_metadata: the variable's metadata; with data its column
\* is profiled
construct_variable_metadata(description, global_datamart_id, col_offset, data) ==
    [datamart_id |-> VariableId(global_datamart_id, col_offset),
     description |-> description,
     profiled |-> data # None,
     \* data.iloc[:, col_offset]
     column |-> IF data # None THEN Some(col_offset) ELSE None]

\* enumerate(...) and range(...): zero-based offsets
Offsets(n) == [i \in 1..n |-> i - 1]

\* construct_global_metadata, lines 257-275: the variable list
Variables_DataFirst(description, datamart_id, data) ==
    IF data # None
      THEN [i \in 1..Val(data).ncols |->
              construct_variable_metadata(None, datamart_id, i - 1, data)]
      ELSE [i \in 1..Len(description.variables) |->
              construct_variable_metadata(Some(description.variables[i]),
                                          datamart_id, i - 1, data)]
Variables(description, datamart_id, data) ==
    IF description.variables # <<>>
      THEN LET offs == Offsets(Len(description.variables))
           IN [i \in 1..Len(description.variables) |->
                 construct_variable_metadata(Some(description.variables[i]),
                                             datamart_id, offs[i], data)]
      ELSE IF data # None
        THEN LET offs == Offsets(Val(data).ncols)
             IN [i \in 1..Val(data).ncols |->
                   construct_variable_metadata(None, datamart_id, offs[i], data)]
        ELSE <<>>

\* construct_global_metadata, lines 273-275
NoVariablesWarning == "No data to profile for variable metadata"

\* construct_global_metadata: the counter after the call, the error raised
\* (if any), the metadata returned and the warnings emitted
construct_global_metadata(cgi, description, data, overwrite_datamart_id) ==
    LET fresh == ~TruthyInt(overwrite_datamart_id)
        uninit == fresh /\ AdvanceIndex(cgi) = None
        cgi2 == IF fresh /\ ~uninit THEN AdvanceIndex(cgi) ELSE cgi
        datamart_id == IF fresh THEN Val(cgi2) ELSE Val(overwrite_datamart_id)
        \* the id taken from the counter, if one was
        assigned == IF fresh THEN cgi2 ELSE None
        \* data.iloc[:, col_offset] of a column the table does not have
        nocolumn == /\ description.variables # <<>>
                    /\ data # None
                    /\ Len(description.variables) > Val(data).ncols
    IN  IF uninit
          THEN [cgi |-> cgi, error |-> "TypeError", assigned |-> None,
                metadata |-> None, warnings |-> {}]
        ELSE IF nocolumn
          THEN [cgi |-> cgi2, error |-> "IndexError", assigned |-> assigned,
                metadata |-> None, warnings |-> {}]
        ELSE [cgi |-> cgi2,
              error |-> "",
              assigned |-> assigned,
              metadata |-> Some([datamart_id |-> datamart_id,
                                 variables |-> Variables(description, datamart_id, data),
                                 profiled |-> data # None]),
              warnings |-> IF description.variables = <<>> /\ data = None
                             THEN {NoVariablesWarning}
                             ELSE {}]

\* _save_data: append the (id, json) record of the metadata to the file
save_data(file, metadata) ==
    Append(file, [id |-> metadata.datamart_id, json |-> metadata])

\* indexing, lines 80-85: Utils.validate_schema(metadata) raises on metadata
\* that is not valid; else the file is appended to if asked, then the store
\* is written
Persist_SaveBeforeValidate(file, docs, metadata, meta_valid, save_to_file, store_ok) ==
    [mirror |-> IF save_to_file THEN save_data(file, metadata) ELSE file,
     docs |-> IF meta_valid /\ store_ok THEN create_doc(docs, metadata) ELSE docs,
     error |-> IF ~meta_valid THEN "SchemaInvalid"
               ELSE IF store_ok THEN "" ELSE "StoreUnavailable"]
Persist(file, docs, metadata, meta_valid, save_to_file, store_ok) ==
    IF ~meta_valid
      THEN [mirror |-> file, docs |-> docs, error |-> "SchemaInvalid"]
      ELSE [mirror |-> IF save_to_file THEN save_data(file, metadata) ELSE file,
            docs |-> IF store_ok THEN create_doc(docs, metadata) ELSE docs,
            error |-> IF store_ok THEN "" ELSE "StoreUnavailable"]

\* indexing, lines 68-73 (after `not data`): the data to index with. The
\* materializer is called when the flag is set; whatever it raises is caught
\* and warned about
MaterializationWarning == "Materialization Failed, index based on schema json only"
Materialize_Fatal(query_data_for_indexing, materialized) ==
    IF ~query_data_for_indexing
      THEN [data |-> None, called |-> FALSE, failed |-> FALSE, error |-> "",
            warnings |-> {}]
      ELSE IF materialized = None
        THEN [data |-> None, called |-> TRUE, failed |-> TRUE,
              error |-> "MaterializationFailed", warnings |-> {}]
        ELSE [data |-> materialized, called |-> TRUE, failed |-> FALSE, error |-> "",
              warnings |-> {}]
Materialize(query_data_for_indexing, materialized) ==
    IF ~query_data_for_indexing
      THEN [data |-> None, called |-> FALSE, failed |-> FALSE, error |-> "",
            warnings |-> {}]
      ELSE IF materialized = None
        THEN [data |-> None, called |-> TRUE, failed |-> TRUE, error |-> "",
              warnings |-> {MaterializationWarning}]
        ELSE [data |-> materialized, called |-> TRUE, failed |-> FALSE, error |-> "",
              warnings |-> {}]

\* The requests of indexing: the description file, the table of the data file
\* (None without data_path), the flags, what the materializer would return
\* (None: it fails) and whether the store accepts the write
Requests(descriptions) ==
    [description : descriptions,
     data_path : {None, Some(DataFrame(1))},
     query_data_for_indexing : BOOLEAN,
     materialized : {None} \cup {Some(d) : d \in DataFrames},
     save_to_file : BOOLEAN,
     delete_old_es_index : BOOLEAN,
     store_ok : BOOLEAN]

\* A call's outcome: the state it leaves and what it returned or raised
Outcome(cgi, exists, docs, file, error, assigned, metadata, warnings, mat, dropped) ==
    [cgi |-> cgi, exists |-> exists, docs |-> docs, mirror |-> file,
     error |-> error, assigned |-> assigned, metadata |-> metadata,
     warnings |-> warnings,
     materialize_called |-> mat.called, materialize_failed |-> mat.failed,
     dropped |-> dropped]

\* The materializer was not reached
NoMaterialize == Materialize(FALSE, None)

\* indexing(description_path, es_index, data_path, query_data_for_indexing,
\*          save_to_file, save_to_file_mode, delete_old_es_index)
indexing(cgi, exists, docs, file, req) ==
    LET chk == check_es_index(exists, docs, req.delete_old_es_index)
        cgi1 == IF SyncNeeded(cgi, req.delete_old_es_index)
                  THEN Some(current_global_datamart_id(chk.docs))
                  ELSE cgi
        mat == Materialize(req.query_data_for_indexing, req.materialized)
        con == construct_global_metadata(cgi1, req.description, mat.data, None)
        per == Persist(file, chk.docs, Val(con.metadata), req.description.meta_valid,
                       req.save_to_file, req.store_ok)
    IN  IF ~req.description.valid
          \* _read_data: Utils.validate_schema(description) raises
          THEN Outcome(cgi1, TRUE, chk.docs, file, "SchemaInvalid", None, None, {},
                       NoMaterialize, chk.dropped)
        ELSE IF req.data_path # None
          \* line 68: the truth value of a DataFrame is ambiguous
          THEN Outcome(cgi1, TRUE, chk.docs, file, "ValueError", None, None, {},
                       NoMaterialize, chk.dropped)
        ELSE IF mat.error # ""
          THEN Outcome(cgi1, TRUE, chk.docs, file, mat.error, None, None, mat.warnings,
                       mat, chk.dropped)
        ELSE IF con.error # ""
          THEN Outcome(con.cgi, TRUE, chk.docs, file, con.error, con.assigned, None,
                       mat.warnings, mat, chk.dropped)
        ELSE Outcome(con.cgi, TRUE, per.docs, per.mirror, per.error, con.assigned,
                     IF per.error = "" THEN con.metadata ELSE None,
                     mat.warnings \cup con.warnings, mat, chk.dropped)

\* im.update_doc(index, body, id): the partial update of the document keyed
\* by id; there must be one
update_doc(docs, body) ==
    {IF d.datamart_id = body.datamart_id THEN body ELSE d : d \in docs}

UpdateRequests(descriptions) ==
    [description : descriptions,
     data_path : {None, Some(DataFrame(1))},
     query_data_for_updating : BOOLEAN,
     materialized : {None} \cup {Some(d) : d \in DataFrames},
     document_id : {0, GLOBAL_INDEX_INTERVAL, 2 * GLOBAL_INDEX_INTERVAL},
     store_ok : BOOLEAN]

\* updating(description_path, es_index, document_id, data_path,
\*          query_data_for_updating)
updating(cgi, exists, docs, file, req) ==
    LET chk == check_es_index(exists, docs, FALSE)
        mat == Materialize(req.query_data_for_updating, req.materialized)
        con == construct_global_metadata(cgi, req.description, mat.data,
                                         Some(req.document_id))
        found == \E d \in chk.docs : d.datamart_id = Val(con.metadata).datamart_id
    IN  IF ~req.description.valid
          THEN Outcome(cgi, TRUE, chk.docs, file, "SchemaInvalid", None, None, {},
                       NoMaterialize, chk.dropped)
        ELSE IF req.data_path # None
          THEN Outcome(cgi, TRUE, chk.docs, file, "ValueError", None, None, {},
                       NoMaterialize, chk.dropped)
        ELSE IF mat.error # ""
          THEN Outcome(cgi, TRUE, chk.docs, file, mat.error, None, None, mat.warnings,
                       mat, chk.dropped)
        ELSE IF con.error # ""
          THEN Outcome(con.cgi, TRUE, chk.docs, file, con.error, con.assigned, None,
                       mat.warnings, mat, chk.dropped)
        ELSE IF ~req.description.meta_valid
          THEN Outcome(con.cgi, TRUE, chk.docs, file, "SchemaInvalid", con.assigned,
                       None, mat.warnings \cup con.warnings, mat, chk.dropped)
        ELSE IF ~req.store_ok \/ ~found
          THEN Outcome(con.cgi, TRUE, chk.docs, file, "StoreUnavailable", con.assigned,
                       None, mat.warnings \cup con.warnings, mat, chk.dropped)
        ELSE Outcome(con.cgi, TRUE, update_doc(chk.docs, Val(con.metadata)), file,
                     "", con.assigned, con.metadata, mat.warnings \cup con.warnings,
                     mat, chk.dropped)

\* The requests of bulk_indexing: the description files of description_dir in
\* os.listdir order, whether data_dir is given, the flags, and what the
\* materializer and the store do during the batch
SeqsUpTo(S, n) == UNION {[1..k -> S] : k \in 0..n}
BulkRequests(descriptions, n) ==
    [descriptions : SeqsUpTo(descriptions, n),
     data_dir : BOOLEAN,
     query_data_for_indexing : BOOLEAN,
     materialized : {None, Some(DataFrame(2))},
     save_to_file : BOOLEAN,
     delete_old_es_index : BOOLEAN,
     store_ok : BOOLEAN]

\* bulk_indexing, lines 170-175: the indexing call made for one description
\* file; delete_old_es_index is left at its default
RecordRequest_PassDelete(req, description) ==
    [description |-> description,
     data_path |-> IF req.data_dir THEN Some(DataFrame(1)) ELSE None,
     query_data_for_indexing |-> req.query_data_for_indexing,
     materialized |-> req.materialized,
     save_to_file |-> req.save_to_file,
     delete_old_es_index |-> req.delete_old_es_index,
     store_ok |-> req.store_ok]
RecordRequest(req, description) ==
    [description |-> description,
     data_path |-> IF req.data_dir THEN Some(DataFrame(1)) ELSE None,
     query_data_for_indexing |-> req.query_data_for_indexing,
     materialized |-> req.materialized,
     save_to_file |-> req.save_to_file,
     delete_old_es_index |-> FALSE,
     store_ok |-> req.store_ok]

\* What is kept of one record's indexing call
Result(out) ==
    [error |-> out.error, assigned |-> out.assigned, metadata |-> out.metadata,
     dropped |-> out.dropped]

\* bulk_indexing, lines 164-175: the loop from file i on. An exception of
\* indexing is not caught: it ends the loop and the call
RECURSIVE BulkLoop(_, _, _, _)
BulkLoop(out, results, req, i) ==
    IF i > Len(req.descriptions) \/ out.error # ""
      THEN [out |-> out, results |-> results]
      ELSE LET one == indexing(out.cgi, out.exists, out.docs, out.mirror,
                               RecordRequest(req, req.descriptions[i]))
           IN BulkLoop([one EXCEPT !.assigned =
                                      IF one.assigned # None THEN one.assigned
                                                              ELSE out.assigned,
                                   !.warnings = out.warnings \cup one.warnings,
                                   !.materialize_called =
                                      out.materialize_called \/ one.materialize_called,
                                   !.materialize_failed =
                                      out.materialize_failed \/ one.materialize_failed,
                                   !.dropped = out.dropped \/ one.dropped,
                                   !.metadata = None],
                       Append(results, Result(one)), req, i + 1)

\* bulk_indexing(description_dir, es_index, data_dir, query_data_for_indexing,
\*               save_to_file, save_to_file_mode, delete_old_es_index)
bulk_indexing(cgi, exists, docs, file, req) ==
    LET chk == check_es_index(exists, docs, req.delete_old_es_index)
    IN BulkLoop(Outcome(cgi, chk.exists, chk.docs, file, "", None, None, {},
                        NoMaterialize, chk.dropped),
                <<>>, req, 1)

\* The arguments of a direct call of construct_global_metadata
ConstructRequests(descriptions) ==
    [description : {d \in descriptions : d.valid},
     data : {None} \cup {Some(d) : d \in DataFrames},
     overwrite_datamart_id :
         {None, Some(0), Some(GLOBAL_INDEX_INTERVAL), Some(2 * GLOBAL_INDEX_INTERVAL)}]

----------------------------------------------------------------------------
(* Augment.query *)

\* The clauses QueryManager builds, by the call that builds each
Clause(name, args) == [clause |-> name, args |-> args]
match_any(query_string) == Clause("match_any", <<query_string>>)
match_temporal_coverage(start, end) == Clause("match_temporal_coverage", <<start, end>>)
match_global_datamart_id(datamart_id) == Clause("match_global_datamart_id", <<datamart_id>>)
match_variable_datamart_id(datamart_id) ==
    Clause("match_variable_datamart_id", <<datamart_id>>)
match_key_value_pairs(key_value_pairs) ==
    Clause("match_key_value_pairs", <<key_value_pairs>>)
match_some_terms_from_variables_array(terms, minimum_should_match) ==
    Clause("match_some_terms_from_variables_array", <<terms, minimum_should_match>>)

\* The bodies handed to qm.search
match_all == [kind |-> "match_all", queries |-> <<>>]
form_conjunction_query(queries) == [kind |-> "conjunction", queries |-> queries]

\* col.unique().tolist(): the distinct values in order of first appearance
RECURSIVE Unique(_)
Unique(s) ==
    IF s = <<>> THEN <<>>
    ELSE LET r == Unique(SubSeq(s, 1, Len(s) - 1))
         IN IF \E i \in 1..Len(r) : r[i] = s[Len(s)] THEN r ELSE Append(r, s[Len(s)])

\* The criteria of a query; None is a criterion left out
Criteria ==
    [col : {None, Some(<<>>), Some(<<"NY", "LA", "NY">>)},
     minimum_should_match_ratio_for_col : {Some(1)},
     query_string : {None, Some(""), Some("text")},
     temporal_coverage_start : {None, Some("2018")},
     temporal_coverage_end : {None, Some("2019")},
     global_datamart_id : {None, Some(0), Some(GLOBAL_INDEX_INTERVAL)},
     variable_datamart_id : {None, Some(0), Some(GLOBAL_INDEX_INTERVAL + 1)},
     key_value_pairs : {None, Some(<<>>), Some(<< <<"key", "value">> >>)}]

\* query, lines 57-88: the clauses, in the order they are appended
Queries(c) ==
    (IF TruthyStr(c.query_string)
       THEN <<match_any(Val(c.query_string))>> ELSE <<>>)
    \o (IF TruthyStr(c.temporal_coverage_start) \/ TruthyStr(c.temporal_coverage_end)
       THEN <<match_temporal_coverage(c.temporal_coverage_start,
                                      c.temporal_coverage_end)>>
       ELSE <<>>)
    \o (IF TruthyInt(c.global_datamart_id)
       THEN <<match_global_datamart_id(Val(c.global_datamart_id))>> ELSE <<>>)
    \o (IF TruthyInt(c.variable_datamart_id)
       THEN <<match_variable_datamart_id(Val(c.variable_datamart_id))>> ELSE <<>>)
    \o (IF TruthyList(c.key_value_pairs)
       THEN <<match_key_value_pairs(Val(c.key_value_pairs))>> ELSE <<>>)
    \o (IF c.col # None
       THEN <<match_some_terms_from_variables_array(
                  Unique(Val(c.col)), c.minimum_should_match_ratio_for_col)>>
       ELSE <<>>)

\* query, lines 90-93: the body searched for
SearchBody_AlwaysConjunction(queries) == form_conjunction_query(queries)
SearchBody(queries) ==
    IF queries = <<>> THEN match_all ELSE form_conjunction_query(queries)

\* Augment.query: the body it hands to qm.search
query(c) == SearchBody(Queries(c))

----------------------------------------------------------------------------
(* Augment.join *)

\* The strategy names; JoinerPrepare knows the registered ones
JoinerNames == {"default", "rltk", "unregistered"}
Registered == {"default", "rltk"}

\* JoinerPrepare.prepare_joiner(joiner): the joiner of that name, None when
\* there is no implementation of it
prepare_joiner(joiner) == IF joiner \in Registered THEN Some(joiner) ELSE None

\* Python truthiness of an optional dict: None and {} are falsy
TruthyDict(o) == o # None /\ Val(o) # {}

JoinRequests ==
    [left_df : {"left1", "left2"},
     right_df : {"right"},
     left_metadata : {None, Some({}), Some({"left_metadata"})},
     right_metadata : {None, Some({"right_metadata"})},
     joiner : JoinerNames,
     join_ok : BOOLEAN]

\* join, line 142: whether the cache is asked instead of JoinerPrepare
Cached_IfJoiner(cache, joiner) == joiner \in DOMAIN cache /\ cache[joiner] # None
Cached(cache, joiner) == joiner \in DOMAIN cache

\* join, line 145: whether there is no joiner to join with
NoJoiner_Never(j) == FALSE
NoJoiner(j) == j = None

NoJoinerWarning == "No suitable joiner, return original dataframe"

\* Augment.join: the cache after the call, the calls made to the
\* collaborators, the warnings, the error raised and the table returned
join(cache, req) ==
    LET cached == Cached(cache, req.joiner)
        cache1 == [n \in DOMAIN cache \cup {req.joiner} |->
                      IF n = req.joiner /\ ~cached THEN prepare_joiner(n)
                                                   ELSE cache[n]]
        prepare == IF cached THEN <<>> ELSE <<"prepare_joiner">>
        generate == IF TruthyDict(req.left_metadata)
                      THEN <<>> ELSE <<"generate_metadata_from_dataframe">>
        features == <<"calculate_dsbox_features", "calculate_dsbox_features">>
    IN  IF NoJoiner(cache1[req.joiner])
          THEN [joiners |-> cache1, calls |-> prepare, warnings |-> {NoJoinerWarning},
                error |-> "", result |-> Some(req.left_df)]
        ELSE IF cache1[req.joiner] = None
          \* None has no join
          THEN [joiners |-> cache1, calls |-> prepare \o generate \o features,
                warnings |-> {}, error |-> "AttributeError", result |-> None]
        ELSE IF ~req.join_ok
          THEN [joiners |-> cache1,
                calls |-> prepare \o generate \o features \o <<"join">>,
                warnings |-> {}, error |-> "JoinFailed", result |-> None]
        ELSE [joiners |-> cache1,
              calls |-> prepare \o generate \o features \o <<"join">>,
              warnings |-> {}, error |-> "",
              result |-> Some(<<Val(cache1[req.joiner]), req.left_df, req.right_df>>)]

----------------------------------------------------------------------------
(* The state machine of IndexBuilder processes over one store index *)

\* A document an earlier process left in the index
OldDocument ==
    Val(construct_global_metadata(Some(0), Description(TRUE, 1, TRUE), None, None).metadata)

\* What `last` keeps of a call's arguments
Args(valid, delete_old_es_index, data_supplied, query_data, overwrite_datamart_id, variables, data) ==
    [valid |-> valid,
     \* the description's variables and the data construct_global_metadata gets
     variables |-> variables,
     data |-> data,
     delete_old_es_index |-> delete_old_es_index,
     data_supplied |-> data_supplied,
     query_data |-> query_data,
     overwrite_datamart_id |-> overwrite_datamart_id]

NoCall ==
    [op |-> "none", b |-> "none", args |-> Args(TRUE, FALSE, FALSE, FALSE, None, <<>>, None),
     before |-> [cgi |-> None, docs |-> {}, mirror |-> <<>>, op |-> "none",
                 assigned |-> None],
     error |-> "", assigned |-> None, metadata |-> None, warnings |-> {},
     materialize_called |-> FALSE, materialize_failed |-> FALSE, dropped |-> FALSE,
     batch |-> <<>>, results |-> <<>>]

\* What `last` keeps of a call: its arguments, the state before it, the
\* previous call and the outcome
Call(op, b, args, out, batch, results) ==
    [op |-> op, b |-> b, args |-> args, batch |-> batch, results |-> results,
     before |-> [cgi |-> current_global_index[b], docs |-> es_docs, mirror |-> mirror,
                 op |-> last.op, assigned |-> last.assigned],
     error |-> out.error, assigned |-> out.assigned, metadata |-> out.metadata,
     warnings |-> out.warnings,
     materialize_called |-> out.materialize_called,
     materialize_failed |-> out.materialize_failed, dropped |-> out.dropped]

\* The ids a call took from the counter of b (line 251), one for each call of
\* indexing it came to, and whether that call of indexing returned its document
Assigned(b, results) ==
    LET Took(r) == r.assigned # None
        taken == SelectSeq(results, Took)
    IN [i \in 1..Len(taken) |->
          [b |-> b, id |-> Val(taken[i].assigned), ok |-> taken[i].error = "",
           dropped |-> taken[i].dropped]]

ApplyBatch(op, b, args, out, batch, results, n) ==
    /\ current_global_index' = [current_global_index EXCEPT ![b] = out.cgi]
    /\ assignments' = assignments \o
          Assigned(b, IF op = "bulk_indexing" THEN results ELSE <<Result(out)>>)
    /\ es_exists' = out.exists
    /\ es_docs' = out.docs
    /\ mirror' = out.mirror
    /\ last' = Call(op, b, args, out, batch, results)
    /\ ncalls' = ncalls + n
    /\ UNCHANGED augvars

Apply(op, b, args, out) == ApplyBatch(op, b, args, out, <<>>, <<>>, 1)

\* What `alast` holds before any call
NoAugmentCall ==
    [op |-> "none", criteria |-> None, body |-> None, request |-> None,
     cached |-> FALSE, calls |-> <<>>, warnings |-> {}, error |-> "",
     result |-> None]

InitAugment ==
    /\ joiners = <<>>
    /\ prepared = [n \in JoinerNames |-> 0]
    /\ alast = NoAugmentCall

Init ==
    /\ current_global_index = [b \in Builders |-> None]
    /\ \E st \in {<<FALSE, {}>>, <<TRUE, {OldDocument}>>} :
          es_exists = st[1] /\ es_docs = st[2]
    /\ mirror = <<>>
    /\ last = NoCall
    /\ ncalls = 0
    /\ assignments = <<>>
    /\ InitAugment

\* A call of indexing with one of the requests reqs
IndexingCall(b, reqs) ==
    \E req \in reqs :
        Apply("indexing", b,
              Args(req.description.valid, req.delete_old_es_index, req.data_path # None,
                   req.query_data_for_indexing, None, req.description.variables,
                   Materialize(req.query_data_for_indexing, req.materialized).data),
              indexing(current_global_index[b], es_exists, es_docs, mirror, req))

IndexingOf(b, reqs) ==
    /\ ncalls < MaxCalls
    /\ IndexingCall(b, reqs)

Indexing(b) == IndexingOf(b, Requests(Descriptions))

Updating(b) ==
    /\ ncalls < MaxCalls
    /\ \E req \in UpdateRequests(Descriptions) :
        Apply("updating", b,
              Args(req.description.valid, FALSE, req.data_path # None,
                   req.query_data_for_updating,
                   Some(req.document_id), req.description.variables,
                   Materialize(req.query_data_for_updating, req.materialized).data),
              updating(current_global_index[b], es_exists, es_docs, mirror, req))

ConstructGlobalMetadata(b) ==
    /\ ncalls < MaxCalls
    /\ \E req \in ConstructRequests(Descriptions) :
        LET con == construct_global_metadata(current_global_index[b], req.description,
                                             req.data, req.overwrite_datamart_id)
        IN Apply("construct_global_metadata", b,
                 Args(TRUE, FALSE, req.data # None, FALSE, req.overwrite_datamart_id,
                      req.description.variables, req.data),
                 Outcome(con.cgi, es_exists, es_docs, mirror, con.error, con.assigned,
                         con.metadata, con.warnings, NoMaterialize, FALSE))

\* One IndexBuilder process indexing into the store
Next == Indexing("b1")

Spec == Init /\ [][Next]_vars

\* The requests of indexing without data and without the materializer
PlainRequests ==
    {req \in Requests(Descriptions) :
        /\ req.data_path = None
        /\ ~req.query_data_for_indexing
        /\ req.materialized = None}

IndexingPlain(b) == IndexingOf(b, PlainRequests)

\* One IndexBuilder process whose indexing, updating and
\* construct_global_metadata are called
NextCalls ==
    \/ IndexingPlain("b1")
    \/ Updating("b1")
    \/ ConstructGlobalMetadata("b1")

SpecCalls == Init /\ [][NextCalls]_vars

\* Two IndexBuilder processes over the one store index, their calls of
\* indexing serialized: a step is one whole call. Neither drops the index.
SharedRequests == {req \in PlainRequests : ~req.delete_old_es_index}

IndexingShared(b) ==
    /\ ncalls < MaxSharedCalls
    /\ IndexingCall(b, SharedRequests)

NextShared ==
    \/ IndexingShared("b1")
    \/ IndexingShared("b2")

SpecShared == Init /\ [][NextShared]_vars

\* What `last` keeps of a batch: each file's description, and what the
\* store does
Batch(req) ==
    [i \in 1..Len(req.descriptions) |->
        [valid |-> req.descriptions[i].valid,
         meta_valid |-> req.descriptions[i].meta_valid,
         nvariables |-> Len(req.descriptions[i].variables),
         store_ok |-> req.store_ok]]

\* The description files of the directories
BulkDescriptions == Descriptions \ {Description(TRUE, 1, TRUE)}

\* An empty directory counts as one call
BulkIndexing(b) ==
    /\ ncalls < MaxCalls
    /\ \E req \in BulkRequests(BulkDescriptions, MaxCalls - ncalls) :
        LET bulk == bulk_indexing(current_global_index[b], es_exists, es_docs,
                                  mirror, req)
        IN ApplyBatch("bulk_indexing", b,
                      Args(TRUE, req.delete_old_es_index, req.data_dir,
                           req.query_data_for_indexing, None, <<>>, None),
                      bulk.out, Batch(req), bulk.results,
                      IF req.descriptions = <<>> THEN 1 ELSE Len(req.descriptions))

\* One IndexBuilder process indexing directories into the store
NextBulk == BulkIndexing("b1")

SpecBulk == Init /\ [][NextBulk]_vars

\* The same process, over descriptions that include one as wide as the interval
WideRequests ==
    {req \in Requests(Descriptions \cup {WideDescription}) :
        /\ req.data_path = None
        /\ ~req.query_data_for_indexing
        /\ req.materialized = None
        /\ ~req.save_to_file}

IndexingWide(b) == IndexingOf(b, WideRequests)

NextWide == IndexingWide("b1")

SpecWide == Init /\ [][NextWide]_vars

----------------------------------------------------------------------------
(* The state machine of one Augment instance *)

Query ==
    /\ \E c \in Criteria :
          alast' = [NoAugmentCall EXCEPT !.op = "query", !.criteria = Some(c),
                                         !.body = Some(query(c))]
    /\ UNCHANGED <<joiners, prepared>>
    /\ UNCHANGED ibvars

Count(calls, name) == Cardinality({i \in 1..Len(calls) : calls[i] = name})

Join ==
    /\ \E req \in JoinRequests :
          LET out == join(joiners, req)
              n == prepared[req.joiner] + Count(out.calls, "prepare_joiner")
          IN /\ n <= MaxPrepares
             /\ joiners' = out.joiners
             /\ prepared' = [prepared EXCEPT ![req.joiner] = n]
             /\ alast' = [NoAugmentCall EXCEPT
                             !.op = "join", !.request = Some(req),
                             !.cached = req.joiner \in DOMAIN joiners,
                             !.calls = out.calls, !.warnings = out.warnings,
                             !.error = out.error, !.result = out.result]
    /\ UNCHANGED ibvars

\* No IndexBuilder runs beside the Augment instance
InitAugmentOnly == Init /\ ~es_exists

\* One Augment instance answering queries
NextQuery == Query
SpecQuery == InitAugmentOnly /\ [][NextQuery]_vars

\* One Augment instance joining tables
NextJoin == Join
SpecJoin == InitAugmentOnly /\ [][NextJoin]_vars

----------------------------------------------------------------------------
(* Claims about IndexBuilder *)

IsIndexing == last.op = "indexing"

\* The ids of a document's variables, in column order
VariableIds(doc) == [i \in 1..Len(doc.variables) |-> doc.variables[i].datamart_id]
Range(f) == {f[i] : i \in DOMAIN f}

\* Every document there is: the one the latest call returned, those of the
\* store, those of the mirror file
Documents ==
    (IF last.metadata # None THEN {Val(last.metadata)} ELSE {})
        \cup es_docs \cup {mirror[i].json : i \in 1..Len(mirror)}

\* C1: of two consecutive indexing calls of one IndexBuilder that both take a
\* dataset id, the second without dropping the index, the second's id is the
\* first's plus GLOBAL_INDEX_INTERVAL.
C1_ConsecutiveIds ==
    (/\ IsIndexing
     /\ last.before.op = "indexing"
     /\ last.before.assigned # None
     /\ last.assigned # None
     /\ ~last.dropped)
        => Val(last.assigned) = Val(last.before.assigned) + GLOBAL_INDEX_INTERVAL

C1_Witness ==
    /\ IsIndexing
    /\ last.before.op = "indexing"
    /\ last.before.assigned = Some(2 * GLOBAL_INDEX_INTERVAL)
    /\ last.assigned = Some(3 * GLOBAL_INDEX_INTERVAL)
    /\ ~last.dropped

\* C2: in every metadata document with dataset id D and k variables, the
\* variable at zero-based offset i has datamart_id D + i + 1, so the column
\* ids are D+1 .. D+k in column order.
C2_ColumnIds ==
    \A doc \in Documents :
        /\ \A i \in 0..(Len(doc.variables) - 1) :
              doc.variables[i + 1].datamart_id = doc.datamart_id + i + 1
        /\ Range(VariableIds(doc)) =
              (doc.datamart_id + 1)..(doc.datamart_id + Len(doc.variables))

C2_Witness ==
    /\ IsIndexing
    /\ last.metadata # None
    /\ Len(Val(last.metadata).variables) = 2
    /\ VariableIds(Val(last.metadata)) =
          <<Val(last.metadata).datamart_id + 1, Val(last.metadata).datamart_id + 2>>

\* C3: no column id of one dataset of the index is the dataset id or a column
\* id of another dataset of the index, whatever the datasets' column counts.
C3_NoCollision ==
    \A d1 \in es_docs : \A d2 \in es_docs :
        d1.datamart_id # d2.datamart_id =>
            /\ d2.datamart_id \notin Range(VariableIds(d1))
            /\ Range(VariableIds(d1)) \cap Range(VariableIds(d2)) = {}

\* C4: indexing with delete_old_es_index on an index that holds documents
\* empties the index before the new document is written (afterwards the
\* index holds the new document and nothing else), and the id it takes is
\* the empty store's maximum plus the interval, whatever the counter was.
C4_DeleteResyncs ==
    (IsIndexing /\ last.args.delete_old_es_index /\ last.before.docs # {})
        => /\ last.dropped
           /\ es_docs = (IF last.error = "" THEN {Val(last.metadata)} ELSE {})
           /\ last.assigned # None =>
                 Val(last.assigned) =
                     current_global_datamart_id({}) + GLOBAL_INDEX_INTERVAL

C4_Witness ==
    /\ IsIndexing
    /\ last.args.delete_old_es_index
    /\ last.before.docs # {}
    /\ last.before.cgi = Some(2 * GLOBAL_INDEX_INTERVAL)
    /\ last.error = ""
    /\ last.assigned = Some(GLOBAL_INDEX_INTERVAL)
    /\ es_docs = {Val(last.metadata)}

\* C6: an indexing call whose description is not valid ends with the schema
\* error, and an indexing call that ends with the schema error (of the
\* description or of the metadata) returns nothing, writes no document to the
\* store and appends nothing to the mirror file.
C6_SchemaInvalidPersistsNothing ==
    IsIndexing =>
        /\ ~last.args.valid => last.error = "SchemaInvalid"
        /\ last.error = "SchemaInvalid" =>
              /\ last.metadata = None
              /\ mirror = last.before.mirror
              /\ es_docs \subseteq last.before.docs

\* the metadata's validation failed (an id was taken) in a call that asked for
\* the mirror file, after a call that wrote both
C6_Witness ==
    /\ IsIndexing
    /\ last.error = "SchemaInvalid"
    /\ last.args.valid
    /\ last.assigned # None
    /\ last.before.mirror # <<>>
    /\ last.before.docs # {}
    /\ mirror = last.before.mirror
    /\ es_docs = last.before.docs

\* C7: in indexing the materializer is called only when no data was supplied
\* and query_data_for_indexing is set; when it fails the warning is emitted
\* and the call goes on: any error is one of the later steps', and a call
\* without error has persisted metadata built from the schema alone.
C7_MaterializeFailureNotFatal ==
    IsIndexing =>
        /\ last.materialize_called =>
              ~last.args.data_supplied /\ last.args.query_data
        /\ (last.args.valid /\ ~last.args.data_supplied /\ last.args.query_data)
              => last.materialize_called
        /\ last.materialize_failed =>
              /\ MaterializationWarning \in last.warnings
              /\ last.error \in {"", "SchemaInvalid", "StoreUnavailable"}
              /\ last.assigned # None
              /\ last.error = "" =>
                    /\ last.metadata # None
                    /\ ~Val(last.metadata).profiled
                    /\ \A i \in 1..Len(Val(last.metadata).variables) :
                          ~Val(last.metadata).variables[i].profiled
                    /\ Val(last.metadata) \in es_docs

C7_Witness ==
    /\ IsIndexing
    /\ last.materialize_failed
    /\ MaterializationWarning \in last.warnings
    /\ last.error = ""
    /\ Val(last.metadata) \in es_docs
    /\ Len(Val(last.metadata).variables) = 2


IsBulk == last.op = "bulk_indexing"

\* C5: in bulk_indexing each description file that is valid (and whose write
\* the store accepts) is indexed and has its document in the index, whatever
\* happened to the files before it: the failure of one does not end the batch.
C5_BatchRecordsIndependent ==
    (IsBulk /\ ~last.args.data_supplied) =>
        \A i \in 1..Len(last.batch) :
            (last.batch[i].valid /\ last.batch[i].meta_valid
                /\ last.batch[i].store_ok)
               => /\ i <= Len(last.results)
                  /\ last.results[i].error = ""
                  /\ Val(last.results[i].metadata) \in es_docs

\* A call that was handed an id to overwrite with: construct_global_metadata
\* with overwrite_datamart_id, or updating (its document_id)
IsOverwrite ==
    /\ last.op \in {"construct_global_metadata", "updating"}
    /\ last.args.overwrite_datamart_id # None

\* C11: construct_global_metadata with an overwrite id, and updating with any
\* document_id, leave current_global_index as it was, and the document they
\* return has the supplied id as its datamart_id, for every supplied id, 0
\* included.
C11_OverwriteKeepsCounter ==
    IsOverwrite =>
        /\ current_global_index[last.b] = last.before.cgi
        /\ last.metadata # None =>
              Val(last.metadata).datamart_id = Val(last.args.overwrite_datamart_id)
\* C12: construct_global_metadata without an overwrite id, called while
\* current_global_index is still None (never read from the store), raises an
\* error, returns no metadata, takes no id, and leaves the counter None.
C12_UnsynchronizedFails ==
    (/\ last.op = "construct_global_metadata"
     /\ last.args.overwrite_datamart_id = None
     /\ last.before.cgi = None)
        => /\ last.error # ""
           /\ last.metadata = None
           /\ last.assigned = None
           /\ current_global_index[last.b] = None

C12_Witness ==
    /\ last.op = "construct_global_metadata"
    /\ last.args.overwrite_datamart_id = None
    /\ last.before.cgi = None
    /\ last.error = "TypeError"
    /\ current_global_index[last.b] = None

\* C13: when the indexing calls of two IndexBuilder processes over one index
\* are serialized (no two overlap), the dataset ids they take are distinct,
\* in whatever order the calls come. (Stated of the ids of the calls that
\* returned their document.)
C13_SerializedIdsDistinct ==
    \A i \in 1..Len(assignments) : \A j \in 1..Len(assignments) :
        (i < j /\ assignments[i].ok /\ assignments[j].ok)
            => assignments[i].id # assignments[j].id

\* C14: the variable list of the metadata construct_global_metadata returns:
\* when the description declares variables, one variable for each declared
\* entry, in declared order; else, with data, one variable for each column of
\* the data, in physical order; else no variable, and the warning is emitted.
\* So the list is as long as the columns described or profiled are many.
C14_VariableList ==
    LET m == Val(last.metadata)
        declared == last.args.variables
        data == last.args.data
    IN last.metadata # None =>
        /\ declared # <<>> =>
              /\ Len(m.variables) = Len(declared)
              /\ \A i \in 1..Len(declared) :
                    m.variables[i].description = Some(declared[i])
        /\ (declared = <<>> /\ data # None) =>
              /\ Len(m.variables) = Val(data).ncols
              /\ \A i \in 1..Val(data).ncols :
                    /\ m.variables[i].description = None
                    /\ m.variables[i].column = Some(i - 1)
        /\ (declared = <<>> /\ data = None) =>
              /\ m.variables = <<>>
              /\ NoVariablesWarning \in last.warnings

\* a direct call with data of two columns and a description that declares one
C14_Witness ==
    /\ last.op = "construct_global_metadata"
    /\ last.metadata # None
    /\ Len(last.args.variables) = 1
    /\ last.args.data = Some(DataFrame(2))
    /\ Len(Val(last.metadata).variables) = 1
    /\ Val(last.metadata).variables[1].description = Some(last.args.variables[1])

\* C15: over the indexing calls of one IndexBuilder, those that drop the
\* index and those that fail the schema validation included, a dataset id
\* that was taken once is not taken again by a later call.
C15_IdsNeverReused ==
    \A i \in 1..Len(assignments) : \A j \in 1..Len(assignments) :
        i < j => assignments[i].id # assignments[j].id

\* C16: the records an indexing call appends to the mirror file are of
\* documents the call has written to the store: a call whose store write
\* failed leaves no record of its document in the file.
C16_MirrorAfterStore ==
    IsIndexing =>
        \A i \in (Len(last.before.mirror) + 1)..Len(mirror) :
            /\ last.error = ""
            /\ mirror[i].json \in es_docs

\* The batch's records were all indexed without error
BatchSucceeded ==
    /\ Len(last.results) = Len(last.batch)
    /\ \A i \in 1..Len(last.results) : last.results[i].error = ""

\* C17: bulk_indexing with delete_old_es_index drops an index that exists
\* once, before the first record; no record's indexing drops it again, the
\* documents of the earlier records stay while the later ones are indexed,
\* and after a batch of n records indexed without error the index holds
\* their n documents (and nothing older).
C17_BulkDropsOnce ==
    (IsBulk /\ last.args.delete_old_es_index) =>
        /\ \A i \in 1..Len(last.results) : ~last.results[i].dropped
        /\ last.before.docs # {} => last.dropped
        /\ \A i \in 1..Len(last.results) :
              last.results[i].error = "" => Val(last.results[i].metadata) \in es_docs
        /\ BatchSucceeded =>
              /\ es_docs = {Val(last.results[i].metadata) : i \in 1..Len(last.results)}
              /\ Cardinality(es_docs) = Len(last.batch)

\* a batch of two records over an index that held a document
C17_Witness ==
    /\ IsBulk
    /\ last.args.delete_old_es_index
    /\ last.before.docs = {OldDocument}
    /\ last.dropped
    /\ Len(last.batch) = 2
    /\ BatchSucceeded
    /\ Cardinality(es_docs) = 2
    /\ OldDocument \notin es_docs

----------------------------------------------------------------------------
(* Claims about Augment *)

IsQuery == alast.op = "query"
IsJoin == alast.op = "join"

\* How many clauses of a kind the searched body holds
Clauses(name) ==
    Cardinality({i \in 1..Len(Val(alast.body).queries) :
                    Val(alast.body).queries[i].clause = name})

\* C8: the body Augment.query searches for is a conjunction that holds one
\* clause for each criterion supplied and none for a criterion left out, also
\* for supplied values such as an id of 0. (An empty string and an empty list
\* of pairs are taken as left out; an id is supplied when it is not None.)
C8_OneClausePerCriterion ==
    LET c == Val(alast.criteria)
        One(supplied) == IF supplied THEN 1 ELSE 0
        text == TruthyStr(c.query_string)
        temporal == \/ TruthyStr(c.temporal_coverage_start)
                    \/ TruthyStr(c.temporal_coverage_end)
        global == c.global_datamart_id # None
        variable == c.variable_datamart_id # None
        pairs == TruthyList(c.key_value_pairs)
        column == c.col # None
    IN (IsQuery /\ (text \/ temporal \/ global \/ variable \/ pairs \/ column)) =>
        /\ Val(alast.body).kind = "conjunction"
        /\ Clauses("match_any") = One(text)
        /\ Clauses("match_temporal_coverage") = One(temporal)
        /\ Clauses("match_global_datamart_id") = One(global)
        /\ Clauses("match_variable_datamart_id") = One(variable)
        /\ Clauses("match_key_value_pairs") = One(pairs)
        /\ Clauses("match_some_terms_from_variables_array") = One(column)

NoCriterion(c) ==
    /\ c.query_string = None
    /\ c.temporal_coverage_start = None
    /\ c.temporal_coverage_end = None
    /\ c.global_datamart_id = None
    /\ c.variable_datamart_id = None
    /\ c.key_value_pairs = None
    /\ c.col = None

\* C9: a query with no criterion searches for the match-everything body, and
\* no query searches for a conjunction of no clauses.
C9_NoCriterionMatchesAll ==
    IsQuery =>
        /\ NoCriterion(Val(alast.criteria)) => Val(alast.body) = match_all
        /\ Val(alast.body).kind = "conjunction" => Val(alast.body).queries # <<>>

C9_Witness ==
    /\ IsQuery
    /\ NoCriterion(Val(alast.criteria))
    /\ Val(alast.body).kind = "match_all"

\* C10: join with a strategy name that has no implementation returns the left
\* table itself, emits the warning and raises nothing, on the first call with
\* the name and on every later one, and makes no call of the metadata
\* generation, the feature step or a joiner.
C10_UnknownJoinerReturnsLeft ==
    (IsJoin /\ Val(alast.request).joiner \notin Registered) =>
        /\ alast.result = Some(Val(alast.request).left_df)
        /\ NoJoinerWarning \in alast.warnings
        /\ alast.error = ""
        /\ \A i \in 1..Len(alast.calls) : alast.calls[i] = "prepare_joiner"

\* a later call with the name, made with another left table
C10_Witness ==
    /\ IsJoin
    /\ Val(alast.request).joiner \notin Registered
    /\ alast.cached
    /\ prepared[Val(alast.request).joiner] = 1
    /\ Val(alast.request).left_df = "left2"
    /\ alast.result = Some("left2")
    /\ alast.calls = <<>>

C10_WitnessFirst ==
    /\ IsJoin
    /\ Val(alast.request).joiner \notin Registered
    /\ ~alast.cached
    /\ alast.result = Some(Val(alast.request).left_df)
    /\ alast.calls = <<"prepare_joiner">>
\* C18: over the join calls of one Augment instance, JoinerPrepare is asked
\* for the joiner of a name at most once, by the first call with that name;
\* every later call with the name asks the cache, which holds what
\* JoinerPrepare answered, also when that was None.
C18_JoinerBuiltOnce ==
    /\ \A n \in JoinerNames :
          /\ prepared[n] <= 1
          /\ prepared[n] = 1 <=> n \in DOMAIN joiners
    /\ \A n \in DOMAIN joiners : joiners[n] = prepare_joiner(n)
    /\ IsJoin =>
          Count(alast.calls, "prepare_joiner") = (IF alast.cached THEN 0 ELSE 1)

\* a second call with a name whose joiner is None, after a call with a name
\* that has one
C18_Witness ==
    /\ IsJoin
    /\ alast.cached
    /\ Val(alast.request).joiner = "unregistered"
    /\ joiners["unregistered"] = None
    /\ prepared = [n \in JoinerNames |-> IF n = "rltk" THEN 0 ELSE 1]
    /\ Count(alast.calls, "prepare_joiner") = 0

====
